---- MODULE Spec2Model ----
(***************************************************************************)
(* State-machine model of the NIP-23 publisher of rekt-nostr-mirror:       *)
(* createSigner (nostr.ts), NIP23Publisher.initialize, publishArticle,     *)
(* waitForPublication and publishMultipleArticles (src/nip23-publisher.ts) *)
(*                                                                         *)
(* One JavaScript thread runs the publisher.  Every await is a position of *)
(* that thread (pc); every callback (subscription next, confirmation       *)
(* timer, delay timer) is an action.  Each call of waitForPublication      *)
(* creates one closure, kept as one record of the sequence waits; each     *)
(* call of initialize that awaits createSigner is one entry of inits.      *)
(* RektNostrMirror.run, main and the signal handlers (index.ts) are the    *)
(* process that drives the publisher.                                      *)
(***************************************************************************)
EXTENDS Integers, Sequences, FiniteSets, TLC

VARIABLES
    signer,        \* this.signer: "null", or the kind of the attached signer
    initResult,    \* outcome of the initialize() call settled last: "none", "resolved", "rejected"
    pc,            \* position of the publisher thread; "exited" once process.exit ended it
    caller,        \* who called publishArticle: "none", "single", "batch"
    articles,      \* publishMultipleArticles: the articles argument
    options,       \* PublishOptions.relays: [defined, list]
    delayMs,       \* publishMultipleArticles: the delayMs argument
    i,             \* publishMultipleArticles: loop index (0-based, as in the code)
    eventIds,      \* publishMultipleArticles: the eventIds array
    article,       \* publishArticle: the article argument
    relays,        \* publishArticle: const relays
    signedEvent,   \* publishArticle: const signedEvent ([id |-> ...]) or NoEvent
    publishResult, \* publishArticle: const publishResult (relays that accepted), -1 when unset
    waits,         \* one record per waitForPublication closure
    calls,         \* the calls made so far, in order: [op, i]
    returned,      \* value the top-level call resolved with
    thrown,        \* error the top-level call rejected with, "none" if none
    built,         \* the events built by the event builder, latest last (at most two)
    run,           \* RektNostrMirror.run: the state of the process running it
    inits          \* the initialize() calls awaiting createSigner: their signer strings

vars == <<signer, initResult, pc, caller, articles, options, delayMs, i, eventIds,
          article, relays, signedEvent, publishResult, waits, calls, returned, thrown,
          built, run, inits>>

\* ------------------------------------------------------------------ bounds
\* Longest batch handed to publishMultipleArticles.
MaxBatch == 2
\* Longest listing page the site serves.
MaxListing == 3
\* Longest caller-supplied relay list.
MaxRelays == 4
\* Granularity of the modelled clock of a confirmation wait.
TickMs == 2500

\* ------------------------------------------------------- program constants
\* setTimeout(..., 5000) in waitForPublication.
WaitTimeoutMs == 5000
\* delayMs: number = 5000
DefaultDelayMs == 5000
\* kind: 30023
Kind == 30023

Min(a, b) == IF a < b THEN a ELSE b

\* private defaultRelays = [ five relay URLs ]
defaultRelays ==
    << <<"wss", "relay.damus.io">>, <<"wss", "nos.lol">>, <<"wss", "relay.nostr.band">>,
       <<"wss", "nostr.wine">>, <<"wss", "relay.snort.social">> >>

\* A caller-supplied relay list of n relays.
CustomRelays(n) == [k \in 1..n |-> <<"wss", "custom", k>>]

\* The articles callers publish, each a distinct URL.
Articles == 1..MaxBatch

\* The relays option: absent, or a list of 0..MaxRelays relays.
RelayOptions ==
    {[defined |-> FALSE, list |-> <<>>]} \cup
    {[defined |-> TRUE, list |-> CustomRelays(n)] : n \in 0..MaxRelays}

\* The delays a caller passes: none, or the default.
DelayChoices == {0, DefaultDelayMs}

\* The batches callers publish: n distinct articles, latest or oldest first.
Batches ==
    {[k \in 1..n |-> n + 1 - k] : n \in 0..MaxBatch} \cup
    {[k \in 1..n |-> k] : n \in 0..MaxBatch}

NoEvent == [id |-> <<"none", 0>>]

\* ------------------------------------------------------------ createSigner
\* Signer strings are sequences of characters, so that startsWith is computed.
StartsWith(s, p) == Len(s) >= Len(p) /\ SubSeq(s, 1, Len(p)) = p

PrefixNsec == <<"n", "s", "e", "c">>
PrefixNcryptsec == <<"n", "c", "r", "y", "p", "t", "s", "e", "c">>
PrefixBunker == <<"b", "u", "n", "k", "e", "r", ":", "/", "/">>

SignerStrings ==
    { PrefixNsec \o <<"1">>,
      PrefixNcryptsec \o <<"1">>,
      PrefixBunker \o <<"p">>,
      <<"n", "p", "u", "b", "1">>,
      <<"b", "u", "n", "k", "e", "r", ":">>,
      <<>> }

\* What the signer library does when asked: it works, or it throws an Error,
\* or it throws a value that is not an Error, at construction or at getPublicKey.
LibOutcomes == {"ok", "constructError", "constructOther", "pubkeyError", "pubkeyOther"}

Thrown(isError, stage) == [status |-> "throw", isError |-> isError, stage |-> stage, signer |-> "null"]

\* Faulty variant: the signer is returned without the getPublicKey call.
ValidateSkipped(kind, lib) ==
    [status |-> "ok", isError |-> FALSE, stage |-> "done", signer |-> kind]

Validate(kind, lib) ==
    IF lib = "pubkeyError" THEN Thrown(TRUE, "getPublicKey")
    ELSE IF lib = "pubkeyOther" THEN Thrown(FALSE, "getPublicKey")
    ELSE [status |-> "ok", isError |-> FALSE, stage |-> "done", signer |-> kind]

Construct(kind, lib) ==
    IF lib = "constructError" THEN Thrown(TRUE, "construct")
    ELSE IF lib = "constructOther" THEN Thrown(FALSE, "construct")
    ELSE Validate(kind, lib)

createSigner(signerString, lib) ==
    IF StartsWith(signerString, PrefixNsec) THEN Construct("nsec", lib)
    ELSE IF StartsWith(signerString, PrefixNcryptsec) THEN Thrown(TRUE, "unsupported")
    ELSE IF StartsWith(signerString, PrefixBunker) THEN Construct("bunker", lib)
    ELSE Thrown(TRUE, "invalid")

\* ------------------------------------------------------------------- Init
\* The command line of a process that has not been started.
NoArgv ==
    [signer |-> <<>>, limit |-> 0, delay |-> 0,
     relays |-> [defined |-> FALSE, list |-> <<>>], skipExisting |-> TRUE, dryRun |-> FALSE]

\* No process is running RektNostrMirror.run.
NoRun ==
    [phase |-> "none", later |-> FALSE, argv |-> NoArgv, listing |-> <<>>, served |-> FALSE,
     createFailed |-> FALSE, scraped |-> <<>>, processed |-> <<>>, listed |-> <<>>,
     exit |-> -1, published |-> {}, signal |-> "none"]

Init ==
    /\ signer = "null"
    /\ initResult = "none"
    /\ pc = "idle"
    /\ caller = "none"
    /\ articles = <<>>
    /\ options = [defined |-> FALSE, list |-> <<>>]
    /\ delayMs = DefaultDelayMs
    /\ i = 0
    /\ eventIds = <<>>
    /\ article = 0
    /\ relays = <<>>
    /\ signedEvent = NoEvent
    /\ publishResult = -1
    /\ waits = <<>>
    /\ calls = <<>>
    /\ returned = <<>>
    /\ thrown = "none"
    /\ built = <<>>
    /\ run = NoRun
    /\ inits = <<>>

\* The sequence s without its k-th element.
Remove(s, k) == SubSeq(s, 1, k - 1) \o SubSeq(s, k + 1, Len(s))

\* JavaScript runs a call up to its first await before anything else runs:
\* a call of publishArticle or of publishMultipleArticles is not left before
\* its first entry into publishArticle has checked this.signer.
InCall == pc = "enter" \/ (pc = "loop" /\ i = 0)

\* A caller calls initialize(signerString): the call runs up to
\* await createSigner(signerString) and waits there; this.signer is not
\* assigned before createSigner settles.
initialize(signerString) ==
    /\ run.phase = "none"
    /\ ~InCall
    /\ inits' = Append(inits, signerString)
    /\ UNCHANGED <<signer, initResult, pc, caller, articles, options, delayMs, i, eventIds,
                   article, relays, signedEvent, publishResult, waits, calls, returned,
                   thrown, built, run>>

\* createSigner settles for the k-th waiting initialize call, which resumes:
\* it attaches the signer createSigner returned; an Error createSigner threw
\* is rethrown wrapped, any other thrown value is swallowed.
Attach(k, lib) ==
    LET r == createSigner(inits[k], lib)
    IN /\ signer' = IF r.status = "ok" THEN r.signer ELSE signer
       /\ initResult' = IF r.status = "throw" /\ r.isError THEN "rejected" ELSE "resolved"
       /\ inits' = Remove(inits, k)

initializeSettles(k, lib) ==
    /\ run.phase = "none"
    /\ ~InCall
    /\ k \in DOMAIN inits
    /\ Attach(k, lib)
    /\ UNCHANGED <<pc, caller, articles, options, delayMs, i, eventIds, article, relays,
                   signedEvent, publishResult, waits, calls, returned, thrown, built, run>>

\* ----------------------------------------------------------- helper state
Log(op, idx, arg) == [op |-> op, i |-> idx, arg |-> arg]

\* The signed event's identifier, as the signer derives it from the event.
EventId(a) == <<"id", a>>

\* Faulty variant: Math.floor instead of Math.ceil.
QuorumFloor(n) == n \div 2

\* Faulty variant: a strict majority, floor(n / 2) + 1.
QuorumStrictMajority(n) == n \div 2 + 1

\* Math.ceil(relays.length / 2)
QuorumTarget(n) == IF n % 2 = 0 THEN n \div 2 ELSE n \div 2 + 1

\* The locals of publishArticle go out of scope when it returns or throws.
DropLocals ==
    /\ article' = 0
    /\ relays' = <<>>
    /\ signedEvent' = NoEvent
    /\ publishResult' = -1

\* publishArticle returns id to its caller.  In the batch loop the id is
\* pushed and, unless this was the last item, the delay timer is started.
Return(id, log) ==
    /\ DropLocals
    /\ thrown' = thrown
    /\ IF caller = "single"
       THEN /\ pc' = "done"
            /\ returned' = <<id>>
            /\ calls' = Append(log, Log("ok", i, id))
            /\ UNCHANGED <<i, eventIds>>
       ELSE /\ eventIds' = Append(eventIds, id)
            /\ returned' = returned
            /\ IF i < Len(articles) - 1
               THEN /\ pc' = "delay"
                    /\ i' = i
                    /\ calls' = log \o <<Log("ok", i, id), Log("sleep", i, <<"ms", delayMs>>)>>
               ELSE /\ pc' = "loop"
                    /\ i' = i + 1
                    /\ calls' = Append(log, Log("ok", i, id))

\* Faulty variant: the batch loop has no catch, the first failure ends the batch.
ThrowAborts(err, log) ==
    /\ DropLocals
    /\ calls' = Append(log, Log("fail", i, <<"error", err>>))
    /\ UNCHANGED <<eventIds, returned, i>>
    /\ pc' = "done"
    /\ thrown' = err

\* publishArticle throws err.  The batch loop catches it and goes on with
\* the next item; a direct caller sees the rejection.
Throw(err, log) ==
    /\ DropLocals
    /\ calls' = Append(log, Log("fail", i, <<"error", err>>))
    /\ UNCHANGED <<eventIds, returned>>
    /\ IF caller = "single"
       THEN /\ pc' = "done"
            /\ thrown' = err
            /\ i' = i
       ELSE /\ pc' = "loop"
            /\ thrown' = thrown
            /\ i' = i + 1

\* Faulty variant: publishArticle without the check of this.signer.
EnterUnchecked(a, log) ==
    /\ article' = a
    /\ relays' = IF options.defined THEN options.list ELSE defaultRelays
    /\ signedEvent' = NoEvent
    /\ publishResult' = -1
    /\ pc' = "sign"
    /\ calls' = log \o <<Log("publishArticle", i, <<"article", a>>),
                        Log("build", i, <<"kind", Kind>>),
                        Log("signEvent", i, <<"article", a>>)>>
    /\ UNCHANGED <<i, eventIds, returned, thrown>>

\* Faulty variant: the event is handed to pool.publish before it is signed.
EnterBroadcastsUnsigned(a, log) ==
    IF signer = "null"
    THEN Throw("NotInitialized", Append(log, Log("publishArticle", i, <<"article", a>>)))
    ELSE /\ article' = a
         /\ relays' = IF options.defined THEN options.list ELSE defaultRelays
         /\ signedEvent' = NoEvent
         /\ publishResult' = -1
         /\ pc' = "sign"
         /\ calls' = log \o <<Log("publishArticle", i, <<"article", a>>),
                             Log("build", i, <<"kind", Kind>>),
                             Log("publish", i, EventId(a)),
                             Log("signEvent", i, <<"article", a>>)>>
         /\ UNCHANGED <<i, eventIds, returned, thrown>>

\* publishArticle, from its entry to the await of signer.signEvent.
Enter(a, log) ==
    IF signer = "null"
    THEN Throw("NotInitialized", Append(log, Log("publishArticle", i, <<"article", a>>)))
    ELSE /\ article' = a
         /\ relays' = IF options.defined THEN options.list ELSE defaultRelays
         /\ signedEvent' = NoEvent
         /\ publishResult' = -1
         /\ pc' = "sign"
         /\ calls' = log \o <<Log("publishArticle", i, <<"article", a>>),
                             Log("build", i, <<"kind", Kind>>),
                             Log("signEvent", i, <<"article", a>>)>>
         /\ UNCHANGED <<i, eventIds, returned, thrown>>


\* ----------------------------------------------------------------- calls
\* A caller calls publishArticle(article, markdown, options) directly.
callPublishArticle(a, opt) ==
    /\ pc = "idle"
    /\ run.phase = "none"
    /\ pc' = "enter"
    /\ caller' = "single"
    /\ article' = a
    /\ options' = opt
    /\ UNCHANGED <<signer, initResult, articles, delayMs, i, eventIds, relays, signedEvent,
                   publishResult, waits, calls, returned, thrown>>
    /\ UNCHANGED <<built, run, inits>>

\* publishArticle called directly: entry check, build, signEvent.
publishArticleEnter ==
    /\ pc = "enter"
    /\ Enter(article, calls)
    /\ UNCHANGED <<signer, initResult, caller, articles, options, delayMs, waits>>
    /\ UNCHANGED <<built, run, inits>>

\* The call of publishMultipleArticles(articles, options, delayMs): the
\* loop starts with an empty eventIds.
BatchCall(as, opt, d) ==
    /\ pc = "idle"
    /\ pc' = "loop"
    /\ caller' = "batch"
    /\ articles' = as
    /\ options' = opt
    /\ delayMs' = d
    /\ i' = 0
    /\ eventIds' = <<>>
    /\ UNCHANGED <<article, relays, signedEvent, publishResult, waits, calls, returned,
                   thrown>>

\* A caller calls publishMultipleArticles(articles, options, delayMs).
publishMultipleArticles(as, opt, d) ==
    /\ run.phase = "none"
    /\ BatchCall(as, opt, d)
    /\ UNCHANGED <<signer, initResult, built, run, inits>>

\* for (let i = 0; i < articles.length; i++): the next item enters
\* publishArticle; after the last one the loop ends and eventIds is returned.
batchLoop ==
    /\ pc = "loop"
    /\ IF i < Len(articles)
       THEN Enter(articles[i + 1], calls)
       ELSE /\ pc' = "done"
            /\ returned' = eventIds
            /\ UNCHANGED <<i, eventIds, article, relays, signedEvent, publishResult, calls,
                           thrown>>
    /\ UNCHANGED <<signer, initResult, caller, articles, options, delayMs, waits>>
    /\ UNCHANGED <<built, run, inits>>

\* await this.signer.signEvent(event) resolves: pool.publish is called.
signReturns ==
    /\ pc = "sign"
    /\ signedEvent' = [id |-> EventId(article)]
    /\ pc' = "publish"
    /\ calls' = Append(calls, Log("publish", i, EventId(article)))
    /\ UNCHANGED <<signer, initResult, caller, articles, options, delayMs, i, eventIds,
                   article, relays, publishResult, waits, returned, thrown>>
    /\ UNCHANGED <<built, run, inits>>

\* await this.signer.signEvent(event) rejects: catch, log, rethrow.
signFails ==
    /\ pc = "sign"
    /\ Throw("SignError", calls)
    /\ UNCHANGED <<signer, initResult, caller, articles, options, delayMs, waits>>
    /\ UNCHANGED <<built, run, inits>>

\* Faulty variant: the quorum is tested when the wait starts, so a target of
\* 0 resolves it at once.
NewWaitChecksAtStart(idx, id, rs) ==
    IF 0 >= QuorumTarget(Len(rs))
    THEN [i |-> idx, eventId |-> id, relays |-> rs, confirmations |-> 0,
          subscribed |-> FALSE, timerArmed |-> FALSE, elapsed |-> 0,
          promise |-> "fulfilled", resolves |-> 1, by |-> "quorum"]
    ELSE [i |-> idx, eventId |-> id, relays |-> rs, confirmations |-> 0,
          subscribed |-> TRUE, timerArmed |-> TRUE, elapsed |-> 0, promise |-> "pending",
          resolves |-> 0, by |-> "none"]

\* Faulty variant: waitForPublication subscribes to the default relays.
NewWaitDefaultRelays(idx, id, rs) ==
    [i |-> idx, eventId |-> id, relays |-> defaultRelays, confirmations |-> 0,
     subscribed |-> TRUE, timerArmed |-> TRUE, elapsed |-> 0, promise |-> "pending",
     resolves |-> 0, by |-> "none"]

\* A new waitForPublication closure: counter 0, subscription open, timer armed.
NewWait(idx, id, rs) ==
    [i |-> idx, eventId |-> id, relays |-> rs, confirmations |-> 0, subscribed |-> TRUE,
     timerArmed |-> TRUE, elapsed |-> 0, promise |-> "pending", resolves |-> 0,
     by |-> "none"]

\* The per-relay outcomes pool.publish may report for n relays, as the number
\* of relays that accepted the event: none, half of them, all.
AcceptChoices(n) == {0, n \div 2, n}

\* await pool.publish(relays, signedEvent) resolves with the per-relay
\* outcomes (accepted of them ok): waitForPublication subscribes and arms
\* its timer.
publishReturns(accepted) ==
    /\ pc = "publish"
    /\ accepted \in AcceptChoices(Len(relays))
    /\ publishResult' = accepted
    /\ waits' = Append(waits, NewWait(i, signedEvent.id, relays))
    /\ pc' = "wait"
    /\ calls' = calls \o <<Log("subscribe", i, signedEvent.id),
                           Log("setTimeout", i, <<"ms", WaitTimeoutMs>>)>>
    /\ UNCHANGED <<signer, initResult, caller, articles, options, delayMs, i, eventIds,
                   article, relays, signedEvent, returned, thrown>>
    /\ UNCHANGED <<built, run, inits>>

\* Faulty variant: the subscription is opened and the timer armed before the
\* result of pool.publish is awaited.
publishFailsSubscribed ==
    /\ pc = "publish"
    /\ Throw("PublishError", calls \o <<Log("subscribe", i, signedEvent.id),
                                        Log("setTimeout", i, <<"ms", WaitTimeoutMs>>)>>)
    /\ waits' = Append(waits, NewWait(i, signedEvent.id, relays))
    /\ UNCHANGED <<signer, initResult, caller, articles, options, delayMs>>
    /\ UNCHANGED <<built, run, inits>>

\* await pool.publish(relays, signedEvent) rejects: catch, log, rethrow.
publishFails ==
    /\ pc = "publish"
    /\ Throw("PublishError", calls)
    /\ UNCHANGED <<signer, initResult, caller, articles, options, delayMs, waits>>
    /\ UNCHANGED <<built, run, inits>>


\* ------------------------------------------------------ waitForPublication
\* resolve() of the closure's promise: only the first call settles it.
Resolve(c, trigger) ==
    [c EXCEPT !.resolves = @ + 1,
              !.promise = "fulfilled",
              !.by = IF c.promise = "pending" THEN trigger ELSE @]

\* Faulty variant: the quorum test written with > instead of >=.
OnNextOffByOne(c) ==
    LET counted == [c EXCEPT !.confirmations = @ + 1]
    IN IF counted.confirmations > QuorumTarget(Len(c.relays))
       THEN Resolve([counted EXCEPT !.timerArmed = FALSE, !.subscribed = FALSE], "quorum")
       ELSE counted

\* Faulty variant: the quorum branch forgets clearTimeout(timeout).
OnNextKeepsTimer(c) ==
    LET counted == [c EXCEPT !.confirmations = @ + 1]
    IN IF counted.confirmations >= QuorumTarget(Len(c.relays))
       THEN Resolve([counted EXCEPT !.subscribed = FALSE], "quorum")
       ELSE counted

\* Faulty variant: the quorum test reads the counter before the increment.
OnNextResolvesLate(c) ==
    LET counted == [c EXCEPT !.confirmations = @ + 1]
    IN IF c.confirmations >= QuorumTarget(Len(c.relays))
       THEN Resolve([counted EXCEPT !.timerArmed = FALSE, !.subscribed = FALSE], "quorum")
       ELSE counted

\* Faulty variant: the quorum branch forgets subscription.unsubscribe().
OnNextStaysSubscribed(c) ==
    LET counted == [c EXCEPT !.confirmations = @ + 1]
    IN IF counted.confirmations >= QuorumTarget(Len(c.relays))
       THEN Resolve([counted EXCEPT !.timerArmed = FALSE], "quorum")
       ELSE counted

\* The subscription's next callback: confirmations++, and at the quorum
\* clearTimeout(timeout), subscription.unsubscribe(), resolve().
OnNext(c) ==
    LET counted == [c EXCEPT !.confirmations = @ + 1]
    IN IF counted.confirmations >= QuorumTarget(Len(c.relays))
       THEN Resolve([counted EXCEPT !.timerArmed = FALSE, !.subscribed = FALSE], "quorum")
       ELSE counted

\* Faulty variant: the timeout callback unsubscribes but never resolves.
OnTimeoutNoResolve(c) == [c EXCEPT !.timerArmed = FALSE, !.subscribed = FALSE]

\* Faulty variant: the timeout callback forgets subscription.unsubscribe().
OnTimeoutLeaks(c) == Resolve([c EXCEPT !.timerArmed = FALSE], "timeout")

\* Faulty variant: the timeout callback rejects when the quorum was not reached.
OnTimeoutRejects(c) ==
    [c EXCEPT !.timerArmed = FALSE, !.subscribed = FALSE, !.resolves = @ + 1,
              !.promise = IF c.promise = "pending" THEN "rejected" ELSE @,
              !.by = IF c.promise = "pending" THEN "timeout" ELSE @]

\* The setTimeout callback: subscription.unsubscribe(), resolve().
OnTimeout(c) ==
    Resolve([c EXCEPT !.timerArmed = FALSE, !.subscribed = FALSE], "timeout")

\* The subscription of closure w yields an occurrence of the event.
observe(w) ==
    /\ w \in DOMAIN waits
    /\ waits[w].subscribed
    /\ waits' = [waits EXCEPT ![w] = OnNext(@)]
    /\ UNCHANGED <<signer, initResult, pc, caller, articles, options, delayMs, i, eventIds,
                   article, relays, signedEvent, publishResult, calls, returned, thrown>>
    /\ UNCHANGED <<built, run, inits>>

\* Time passes for every armed confirmation timer, up to its deadline.
tick ==
    /\ \E w \in DOMAIN waits : waits[w].timerArmed /\ waits[w].elapsed < WaitTimeoutMs
    /\ waits' = [w \in DOMAIN waits |->
                    IF waits[w].timerArmed
                    THEN [waits[w] EXCEPT !.elapsed = Min(@ + TickMs, WaitTimeoutMs)]
                    ELSE waits[w]]
    /\ UNCHANGED <<signer, initResult, pc, caller, articles, options, delayMs, i, eventIds,
                   article, relays, signedEvent, publishResult, calls, returned, thrown>>
    /\ UNCHANGED <<built, run, inits>>

\* Faulty variant: the timer is cleared at its deadline and its callback
\* never runs.
timerFiresCleared(w) ==
    /\ w \in DOMAIN waits
    /\ waits[w].timerArmed
    /\ waits[w].elapsed >= WaitTimeoutMs
    /\ waits' = [waits EXCEPT ![w] = [@ EXCEPT !.timerArmed = FALSE]]
    /\ UNCHANGED <<signer, initResult, pc, caller, articles, options, delayMs, i, eventIds,
                   article, relays, signedEvent, publishResult, calls, returned, thrown>>
    /\ UNCHANGED <<built, run, inits>>

\* The confirmation timer of closure w fires after 5000 ms.
timerFires(w) ==
    /\ w \in DOMAIN waits
    /\ waits[w].timerArmed
    /\ waits[w].elapsed >= WaitTimeoutMs
    /\ waits' = [waits EXCEPT ![w] = [OnTimeout(@) EXCEPT !.timerArmed = FALSE]]
    /\ UNCHANGED <<signer, initResult, pc, caller, articles, options, delayMs, i, eventIds,
                   article, relays, signedEvent, publishResult, calls, returned, thrown>>
    /\ UNCHANGED <<built, run, inits>>

\* A closure stays reachable while its subscription or its timer refers to it.
Reachable(c) == c.subscribed \/ c.timerArmed

\* await this.waitForPublication(...) settles: return signedEvent.id, or
\* catch, log and rethrow if the promise rejected.  The closure is dropped
\* with the promise unless a live subscription or an armed timer still holds it.
waitResumes ==
    /\ pc = "wait"
    /\ waits[Len(waits)].promise # "pending"
    /\ IF waits[Len(waits)].promise = "fulfilled"
       THEN Return(signedEvent.id,
                   Append(calls, Log("resolved", i, <<"by", waits[Len(waits)].by>>)))
       ELSE Throw("WaitError", calls)
    /\ waits' = SelectSeq(waits, Reachable)
    /\ UNCHANGED <<signer, initResult, caller, articles, options, delayMs>>
    /\ UNCHANGED <<built, run, inits>>

\* The inter-publication delay timer fires: the loop goes on.
delayElapses ==
    /\ pc = "delay"
    /\ pc' = "loop"
    /\ i' = i + 1
    /\ UNCHANGED <<signer, initResult, caller, articles, options, delayMs, eventIds, article,
                   relays, signedEvent, publishResult, waits, calls, returned, thrown>>
    /\ UNCHANGED <<built, run, inits>>

\* ------------------------------------------------------------------- Next
\* A caller of the publisher: it initializes at any time, one call at a
\* time, and makes one publishing call.
Next ==
    \/ \E s \in SignerStrings : inits = <<>> /\ initialize(s)
    \/ \E k \in DOMAIN inits, lib \in LibOutcomes : initializeSettles(k, lib)
    \/ \E a \in Articles, opt \in RelayOptions : callPublishArticle(a, opt)
    \/ publishArticleEnter
    \/ \E as \in Batches, opt \in RelayOptions, d \in DelayChoices :
          publishMultipleArticles(as, opt, d)
    \/ batchLoop
    \/ signReturns
    \/ signFails
    \/ \E accepted \in 0..Len(relays) : publishReturns(accepted)
    \/ publishFails
    \/ \E w \in DOMAIN waits : observe(w)
    \/ tick
    \/ \E w \in DOMAIN waits : timerFires(w)
    \/ waitResumes
    \/ delayElapses

Spec == Init /\ [][Next]_vars

\* ------------------------------------------------------------- scheduling
\* A caller initializes the publisher once or not at all, and publishes one
\* batch, before the initialize call, while it is pending or after it.
NextBatch ==
    \/ \E s \in SignerStrings : inits = <<>> /\ initResult = "none" /\ initialize(s)
    \/ \E k \in DOMAIN inits, lib \in LibOutcomes : initializeSettles(k, lib)
    \/ \E as \in Batches, opt \in RelayOptions, d \in DelayChoices :
          publishMultipleArticles(as, opt, d)
    \/ batchLoop
    \/ signReturns
    \/ signFails
    \/ \E accepted \in 0..Len(relays) : publishReturns(accepted)
    \/ publishFails
    \/ \E w \in DOMAIN waits : observe(w)
    \/ tick
    \/ \E w \in DOMAIN waits : timerFires(w)
    \/ waitResumes
    \/ delayElapses

\* The event loop runs every continuation that is ready, every awaited
\* signEvent and pool.publish call settles one way or the other, time
\* passes and due timers fire.  Relays owe no observation.
Fairness ==
    /\ WF_vars(batchLoop)
    /\ WF_vars(signReturns \/ signFails)
    /\ WF_vars((\E accepted \in 0..Len(relays) : publishReturns(accepted)) \/ publishFails)
    /\ WF_vars(tick)
    /\ WF_vars(\E w \in DOMAIN waits : timerFires(w))
    /\ WF_vars(waitResumes)
    /\ WF_vars(delayElapses)

SpecBatch == Init /\ [][NextBatch]_vars /\ Fairness


\* ------------------------------------------------------ RektNostrMirror
\* content.length > 100 in fetchLatestArticles.
MinContentLength == 100
\* result.markdown.length < 100 in run.
MinMarkdownLength == 100

\* What the site serves for an article of the listing page: its page cannot be
\* fetched (the content stays empty), or it has content that converts to too
\* little Markdown, or to enough of it, or content with a relative link that
\* new URL(href, baseUrl) rejects, so that the conversion throws.
PageKinds == {"fetchFailed", "thin", "good", "badLink"}

\* The scraped article a of the listing, with the lengths of its content and
\* of the Markdown the converter makes of it.
Page(a, kind) ==
    [a |-> a,
     convertThrows |-> kind = "badLink",
     contentLen |-> IF kind = "fetchFailed" THEN 0 ELSE MinContentLength + 1,
     markdownLen |-> IF kind = "good" THEN MinMarkdownLength
                     ELSE IF kind = "thin" THEN MinMarkdownLength - 1 ELSE 0]

\* The listing pages the site may serve: n distinct articles.
Listings ==
    UNION {{[k \in 1..n |-> Page(k, f[k])] : f \in [1..n -> PageKinds]} : n \in 0..MaxListing}

HasContent(page) == page.contentLen > MinContentLength

\* Faulty variant: the processing loop keeps an article whatever the length
\* of its Markdown.
LongEnoughAlways(page) == TRUE

LongEnough(page) == ~(page.markdownLen < MinMarkdownLength)

\* fetchLatestArticles(limit): the first limit articles of the listing, their
\* pages fetched, those with more than 100 characters of content kept.
fetchLatestArticles(listing, limit) ==
    SelectSeq(SubSeq(listing, 1, Min(limit, Len(listing))), HasContent)

\* convertRektArticle throws for one of the pages: the error leaves the
\* processing loop and run.
ConversionThrows(pages) == \E k \in DOMAIN pages : pages[k].convertThrows

\* The processing loop of run: of the pages before the first whose conversion
\* throws, the articles whose Markdown is long enough.
Process(pages) ==
    LET throwing == {k \in DOMAIN pages : pages[k].convertThrows}
        end == IF throwing = {} THEN Len(pages)
               ELSE (CHOOSE k \in throwing : \A m \in throwing : k <= m) - 1
        kept == SelectSeq(SubSeq(pages, 1, end), LongEnough)
    IN [k \in 1..Len(kept) |-> kept[k].a]

\* The command lines: a signer string, --limit, --delay, --relays,
\* --skip-existing (true unless negated) and --dry-run; --relays and
\* --no-skip-existing are tried with --limit 1.
Argvs ==
    {argv \in
        [signer : SignerStrings, limit : {1, MaxListing}, delay : {DefaultDelayMs},
         relays : {[defined |-> FALSE, list |-> <<>>],
                   [defined |-> TRUE, list |-> CustomRelays(2)]},
         skipExisting : BOOLEAN, dryRun : BOOLEAN] :
        argv.limit > 1 => argv.skipExisting /\ ~argv.relays.defined}

\* The check of main(): a signer unless --dry-run, limit > 0, delay >= 0.
ValidArgv(argv) ==
    /\ ~(~argv.dryRun /\ argv.signer = <<>>)
    /\ ~(argv.limit <= 0)
    /\ ~(argv.delay < 0)

\* const config: Config = { signerString, articleLimit, publishDelay, relays, dryRun }
Config(argv) ==
    [signerString |-> argv.signer, articleLimit |-> argv.limit, publishDelay |-> argv.delay,
     relays |-> argv.relays, dryRun |-> argv.dryRun]

\* Faulty variant: the signer is initialized in a dry run too.
InitGateAlways(config) == TRUE

\* if (!config.dryRun) await this.publisher.initialize(config.signerString)
InitGate(config) == ~config.dryRun

\* if (config.dryRun) list the articles, else publish them.
DryRunBranch(config) == config.dryRun

\* The phase a process enters when main() has parsed argv.
FirstPhase(argv) ==
    IF ~ValidArgv(argv) THEN "exited"
    ELSE IF InitGate(Config(argv)) THEN "init" ELSE "scrape"

\* A process is started with argv: main() parses it and calls run(config).
runStart(argv) ==
    /\ pc = "idle" /\ caller = "none" /\ initResult = "none" /\ inits = <<>>
    /\ run.phase = "none"
    /\ run' = [run EXCEPT !.phase = FirstPhase(argv), !.argv = argv,
                          !.exit = IF ValidArgv(argv) THEN -1 ELSE 1]
    /\ UNCHANGED <<signer, initResult, pc, caller, articles, options, delayMs, i, eventIds,
                   article, relays, signedEvent, publishResult, waits, calls, returned,
                   thrown, built, inits>>

\* run calls this.publisher.initialize(config.signerString) and awaits it.
runInitialize ==
    /\ run.phase = "init"
    /\ run' = [run EXCEPT !.phase = "initializing"]
    /\ inits' = Append(inits, Config(run.argv).signerString)
    /\ UNCHANGED <<signer, initResult, pc, caller, articles, options, delayMs, i, eventIds,
                   article, relays, signedEvent, publishResult, waits, calls, returned,
                   thrown, built>>

\* The awaited initialize settles and run resumes; a rejection is caught by
\* run's handler, which ends the process with exit code 1.
runInitialized(lib) ==
    /\ run.phase = "initializing"
    /\ inits # <<>>
    /\ Attach(1, lib)
    /\ run' = [run EXCEPT
                 !.createFailed = createSigner(inits[1], lib).status = "throw",
                 !.phase = IF initResult' = "rejected" THEN "exited" ELSE "scrape",
                 !.exit = IF initResult' = "rejected" THEN 1 ELSE @]
    /\ UNCHANGED <<pc, caller, articles, options, delayMs, i, eventIds, article, relays,
                   signedEvent, publishResult, waits, calls, returned, thrown, built>>

\* run, from the result of fetchLatestArticles to the call of
\* publishMultipleArticles: nothing scraped or nothing left after processing
\* ends the run; a conversion that throws is caught by run's handler, which
\* ends the process with exit code 1; a dry run lists the processed
\* articles; otherwise they are handed to publishMultipleArticles.
runScrape(listing) ==
    /\ run.phase = "scrape"
    /\ LET config == Config(run.argv)
           pages == fetchLatestArticles(listing, config.articleLimit)
           processed == Process(pages)
       IN IF ConversionThrows(pages)
          THEN /\ run' = [run EXCEPT !.phase = "exited", !.exit = 1, !.listing = listing,
                                     !.served = TRUE,
                                     !.scraped = pages, !.processed = processed]
               /\ UNCHANGED <<pc, caller, articles, options, delayMs, i, eventIds, article,
                              relays, signedEvent, publishResult, waits, calls, returned,
                              thrown>>
          ELSE IF pages = <<>> \/ processed = <<>>
          THEN /\ run' = [run EXCEPT !.phase = "returned", !.exit = 0, !.listing = listing,
                                     !.served = TRUE,
                                     !.scraped = pages, !.processed = processed]
               /\ UNCHANGED <<pc, caller, articles, options, delayMs, i, eventIds, article,
                              relays, signedEvent, publishResult, waits, calls, returned,
                              thrown>>
          ELSE IF DryRunBranch(config)
          THEN /\ run' = [run EXCEPT !.phase = "returned", !.exit = 0, !.listing = listing,
                                     !.served = TRUE,
                                     !.scraped = pages, !.processed = processed,
                                     !.listed = processed]
               /\ UNCHANGED <<pc, caller, articles, options, delayMs, i, eventIds, article,
                              relays, signedEvent, publishResult, waits, calls, returned,
                              thrown>>
          ELSE /\ run' = [run EXCEPT !.phase = "publishing", !.listing = listing,
                                     !.served = TRUE,
                                     !.scraped = pages, !.processed = processed]
               /\ BatchCall(processed, config.relays, config.publishDelay)
    /\ UNCHANGED <<signer, initResult, built, inits>>

\* run: await this.publisher.publishMultipleArticles(...) resolves, the ids
\* are printed and run returns.
runFinish ==
    /\ run.phase = "publishing"
    /\ pc = "done"
    /\ run' = [run EXCEPT !.phase = "returned", !.exit = 0]
    /\ UNCHANGED <<signer, initResult, pc, caller, articles, options, delayMs, i, eventIds,
                   article, relays, signedEvent, publishResult, waits, calls, returned,
                   thrown, built, inits>>

Signals == {"SIGINT", "SIGTERM"}

\* process.on("SIGINT", ...) and process.on("SIGTERM", ...): the process
\* receives one of the two signals while run awaits; the handler prints that
\* it shuts down and calls process.exit(0).  The process ends where it is:
\* its pending calls, subscriptions and timers end with it.
signalHandler(sig) ==
    /\ run.phase \in {"initializing", "scrape", "publishing"}
    /\ ~InCall
    /\ run' = [run EXCEPT !.phase = "exited", !.exit = 0, !.signal = sig]
    /\ pc' = "exited"
    /\ waits' = <<>>
    /\ inits' = <<>>
    /\ UNCHANGED <<signer, initResult, caller, articles, options, delayMs, i, eventIds,
                   article, relays, signedEvent, publishResult, calls, returned, thrown,
                   built>>

\* The articles this process has published: those whose event id
\* publishMultipleArticles has collected.
Published == {eventIds[k][2] : k \in DOMAIN eventIds}

\* The process has ended; later the same command line is run again, as a
\* new process with a new publisher and no call in progress.  What the
\* earlier process was served and what it published stay on record.
runAgain ==
    /\ run.phase \in {"returned", "exited"}
    /\ ~run.later
    /\ run' = [NoRun EXCEPT !.phase = FirstPhase(run.argv), !.argv = run.argv,
                            !.exit = IF ValidArgv(run.argv) THEN -1 ELSE 1,
                            !.later = TRUE, !.listing = run.listing,
                            !.served = run.served,
                            !.published = Published]
    /\ signer' = "null"
    /\ initResult' = "none"
    /\ pc' = "idle"
    /\ caller' = "none"
    /\ articles' = <<>>
    /\ options' = [defined |-> FALSE, list |-> <<>>]
    /\ delayMs' = DefaultDelayMs
    /\ i' = 0
    /\ eventIds' = <<>>
    /\ calls' = <<>>
    /\ returned' = <<>>
    /\ thrown' = "none"
    /\ waits' = <<>>
    /\ inits' = <<>>
    /\ article' = 0
    /\ relays' = <<>>
    /\ signedEvent' = NoEvent
    /\ publishResult' = -1
    /\ UNCHANGED built

NextRun ==
    \/ \E argv \in Argvs : runStart(argv)
    \/ runInitialize
    \/ \E lib \in LibOutcomes : runInitialized(lib)
    \/ \E listing \in Listings :
          \* the command run again finds the listing its earlier run was served
          /\ run.later /\ run.served => listing = run.listing
          /\ runScrape(listing)
    \/ runFinish
    \/ \E sig \in Signals : signalHandler(sig)
    \/ runAgain
    \/ batchLoop
    \/ signReturns
    \/ signFails
    \/ \E accepted \in 0..Len(relays) : publishReturns(accepted)
    \/ publishFails
    \/ \E w \in DOMAIN waits : observe(w)
    \/ tick
    \/ \E w \in DOMAIN waits : timerFires(w)
    \/ waitResumes
    \/ delayElapses

SpecRun == Init /\ [][NextRun]_vars

\* --------------------------------------------------------- event builder
\* Strings are sequences of characters.  An article URL is its origin
\* followed by the characters after it.
Origin == "https://rekt.news"

\* The longest text after the origin of a URL.
MaxUrlLen == 3

UrlChars == {"/", "x", "?"}

\* The URLs named in the description of the identifier.
ExampleUrls ==
    {<<Origin, "/", "x", "/", "y", "/">>, <<Origin, "/">>, <<Origin, "/", "s", "o", "l", "o">>}

\* The article URLs: the origin alone, or followed by a path and a query.
Urls ==
    ExampleUrls \cup
    {<<Origin>> \o rest :
        rest \in {r \in UNION {[1..n -> UrlChars] : n \in 0..MaxUrlLen} :
                     r = <<>> \/ r[1] \in {"/", "?"}}}

\* An optional string field of an article: undefined, or a string.
Undefined == [defined |-> FALSE, text |-> <<>>]
Str(text) == [defined |-> TRUE, text |-> text]

\* The truthiness of an optional string: defined and not empty.
Truthy(field) == field.defined /\ field.text # <<>>

\* The lists of topic tags of an rektArticle.
TopicLists == {<<>>, <<<<"D", "e", "F", "i">>, <<"d", "e">>>>}

\* The articles handed to publishArticle.
RektArticles ==
    [title : {<<"T">>}, url : Urls, publishedAt : {1999, 12000},
     summary : {Undefined, Str(<<>>), Str(<<"S">>)},
     image : {Undefined, Str(<<"I">>)},
     tags : TopicLists]

\* new URL(url).pathname: the text after the origin up to the query or the
\* fragment; an empty path is "/".
pathname(url) ==
    LET rest == Tail(url)
        stops == {k \in DOMAIN rest : rest[k] \in {"?", "#"}}
        end == IF stops = {} THEN Len(rest) ELSE (CHOOSE k \in stops : \A m \in stops : k <= m) - 1
    IN IF end = 0 THEN <<"/">> ELSE SubSeq(rest, 1, end)

\* str.replace(/^\//, "")
StripLeadingSlash(str) == IF str # <<>> /\ Head(str) = "/" THEN Tail(str) ELSE str

\* str.replace(/\/$/, "")
StripTrailingSlash(str) ==
    IF str # <<>> /\ str[Len(str)] = "/" THEN SubSeq(str, 1, Len(str) - 1) ELSE str

Fallback == <<"a", "r", "t", "i", "c", "l", "e">>

\* Faulty variant: every slash at the start and at the end of the path is
\* removed.
createArticleIdGreedy(url) ==
    LET RECURSIVE StripAll(_)
        StripAll(str) ==
            IF StripTrailingSlash(StripLeadingSlash(str)) = str THEN str
            ELSE StripAll(StripTrailingSlash(StripLeadingSlash(str)))
        stripped == StripAll(pathname(url))
    IN IF stripped = <<>> THEN Fallback ELSE stripped

\* createArticleId(url)
createArticleId(url) ==
    LET urlPath == pathname(url)
        stripped == StripTrailingSlash(StripLeadingSlash(urlPath))
    IN IF stripped = <<>> THEN Fallback ELSE stripped

\* tag.toLowerCase()
toLowerCase(str) ==
    [k \in DOMAIN str |->
        CASE str[k] = "D" -> "d"
          [] str[k] = "F" -> "f"
          [] OTHER -> str[k]]

\* n.toString() of an integer: its decimal digits.
RECURSIVE Digits(_)
Digits(n) ==
    LET digit == <<"0", "1", "2", "3", "4", "5", "6", "7", "8", "9">>[(n % 10) + 1]
    IN IF n < 10 THEN <<digit>> ELSE Digits(n \div 10) \o <<digit>>

toString(n) == IF n < 0 THEN <<"-">> \o Digits(-n) ELSE Digits(n)

\* Faulty variant: the d tag is appended after the topic tags.
buildTagsDLast(rektArticle, articleId) ==
    <<<<"title", rektArticle.title>>,
      <<"published_at", toString(rektArticle.publishedAt \div 1000)>>,
      <<"client", <<"rekt-nostr-mirror">>>>,
      <<"r", rektArticle.url>>>>
    \o [k \in 1..Len(rektArticle.tags) |-> <<"t", toLowerCase(rektArticle.tags[k])>>]
    \o <<<<"d", articleId>>>>

\* Faulty variant: the summary is pushed whenever the field is defined, the
\* image before the summary, and the topic tags as they are.
buildTagsLoose(rektArticle, articleId) ==
    <<<<"d", articleId>>,
      <<"title", rektArticle.title>>,
      <<"published_at", toString(rektArticle.publishedAt \div 1000)>>,
      <<"client", <<"rekt-nostr-mirror">>>>,
      <<"r", rektArticle.url>>>>
    \o (IF Truthy(rektArticle.image) THEN <<<<"image", rektArticle.image.text>>>> ELSE <<>>)
    \o (IF rektArticle.summary.defined THEN <<<<"summary", rektArticle.summary.text>>>> ELSE <<>>)
    \o [k \in 1..Len(rektArticle.tags) |-> <<"t", rektArticle.tags[k]>>]
    \o <<<<"subject", <<"DeFi Security">>>>, <<"subject", <<"Blockchain">>>>>>

\* buildTags(rektArticle, articleId)
buildTags(rektArticle, articleId) ==
    <<<<"d", articleId>>,
      <<"title", rektArticle.title>>,
      <<"published_at", toString(rektArticle.publishedAt \div 1000)>>,
      <<"client", <<"rekt-nostr-mirror">>>>,
      <<"r", rektArticle.url>>>>
    \o (IF Truthy(rektArticle.summary) THEN <<<<"summary", rektArticle.summary.text>>>> ELSE <<>>)
    \o (IF Truthy(rektArticle.image) THEN <<<<"image", rektArticle.image.text>>>> ELSE <<>>)
    \o [k \in 1..Len(rektArticle.tags) |-> <<"t", toLowerCase(rektArticle.tags[k])>>]
    \o <<<<"subject", <<"DeFi Security">>>>, <<"subject", <<"Blockchain">>>>>>

\* The Markdown texts handed to publishArticle.
Markdowns == {<<>>, <<"#", " ", "T">>}

\* The readings of Date.now(), in milliseconds.
NowMs == {1999, 2000}

\* publishArticle(article, markdownContent, options) up to the event it
\* builds: without a signer it rejects and builds nothing; otherwise the
\* event has its kind, the time in seconds, the Markdown text and the tags.
\* Two calls are followed: built keeps the event built last and, before it,
\* the URL and the identifier of the one built before.
buildEvent(a, markdownContent, now) ==
    /\ pc = "idle" /\ run.phase = "none"
    /\ built = <<>> \/ Len(built) = 1
    /\ IF signer = "null"
       THEN /\ thrown' = "NotInitialized"
            /\ built' = built
       ELSE /\ thrown' = "none"
            /\ LET articleId == createArticleId(a.url)
                   event == [article |-> a, articleId |-> articleId, kind |-> Kind,
                             created_at |-> now \div 1000, content |-> markdownContent,
                             tags |-> buildTags(a, articleId)]
               IN built' = IF built = <<>> THEN <<event>>
                           ELSE <<[url |-> built[Len(built)].article.url,
                                   articleId |-> built[Len(built)].articleId], event>>
    /\ UNCHANGED <<signer, initResult, pc, caller, articles, options, delayMs, i, eventIds,
                   article, relays, signedEvent, publishResult, waits, calls, returned,
                   run, inits>>

\* A caller initializes the publisher until a signer is attached, publishes
\* an article and then the same article found at a second address.
NextBuild ==
    \/ \E s \in SignerStrings : inits = <<>> /\ signer = "null" /\ initialize(s)
    \/ \E k \in DOMAIN inits, lib \in LibOutcomes : initializeSettles(k, lib)
    \/ /\ built = <<>>
       /\ \E a \in RektArticles, m \in Markdowns, now \in NowMs : buildEvent(a, m, now)
    \/ /\ built # <<>>
       /\ \E url \in Urls, now \in NowMs :
             buildEvent([built[1].article EXCEPT !.url = url], built[1].content, now)

SpecBuild == Init /\ [][NextBuild]_vars

\* ============================================================== properties
Closures == {waits[w] : w \in DOMAIN waits}

\* A step of one callback of closure w (the closures keep their places).
SameClosures == DOMAIN waits' = DOMAIN waits

\* C1: over a non-empty relay list the wait resolves at the observation that
\* first brings the counter to the quorum target: a pending wait is below the
\* target, and the step that reaches it fulfils the promise by quorum,
\* unsubscribes and cancels the timer, whatever time has elapsed.
C1_Step ==
    /\ \A c \in Closures' :
          Len(c.relays) >= 1 /\ c.promise = "pending" =>
             c.confirmations < QuorumTarget(Len(c.relays))
    /\ SameClosures =>
          \A w \in DOMAIN waits :
             (/\ Len(waits[w].relays) >= 1
              /\ waits[w].confirmations < QuorumTarget(Len(waits[w].relays))
              /\ waits'[w].confirmations >= QuorumTarget(Len(waits[w].relays)))
             => /\ waits'[w].promise = "fulfilled"
                /\ waits'[w].by = "quorum"
                /\ waits'[w].resolves = 1
                /\ ~waits'[w].subscribed
                /\ ~waits'[w].timerArmed
                /\ waits'[w].elapsed = waits[w].elapsed

C1_ResolvesAtQuorum == [][C1_Step]_vars

\* C1 witness: a wait over three relays resolved by its second observation,
\* before any time has passed, with subscription and timer released.
C1_Witness ==
    \E c \in Closures :
       /\ Len(c.relays) = 3 /\ c.by = "quorum" /\ c.confirmations = 2
       /\ c.elapsed < WaitTimeoutMs /\ c.promise = "fulfilled"
       /\ ~c.subscribed /\ ~c.timerArmed

\* C2: the wait never rejects; when the timer fires before the quorum the
\* promise is fulfilled at that step with the count observed so far, zero
\* included.
C2_Step ==
    /\ \A c \in Closures' : c.promise \in {"pending", "fulfilled"}
    /\ \A p \in DOMAIN calls' : calls'[p].arg # <<"error", "WaitError">>
    /\ SameClosures =>
          \A w \in DOMAIN waits :
             (/\ waits[w].timerArmed /\ ~waits'[w].timerArmed
              /\ waits'[w].confirmations = waits[w].confirmations)
             => /\ waits[w].elapsed >= WaitTimeoutMs
                /\ waits'[w].promise = "fulfilled"
                /\ waits'[w].by = "timeout"

C2_ResolvesAtTimeout == [][C2_Step]_vars

\* C2 witness: a wait fulfilled by its timer with zero observations.
C2_Witness ==
    \E c \in Closures :
       /\ c.by = "timeout" /\ c.confirmations = 0 /\ c.promise = "fulfilled"
       /\ c.elapsed = WaitTimeoutMs /\ Len(c.relays) >= 1


\* Console lines of finished waits: how the wait of item idx was resolved.
ResolvedBy(idx, trigger) ==
    \E p \in DOMAIN calls : calls[p] = Log("resolved", idx, <<"by", trigger>>)

\* C3: every subscription a confirmation wait opened is released on both
\* exit paths: a fulfilled wait holds no live subscription, and whenever the
\* publisher is outside a confirmation wait (publishArticle has completed,
\* publishMultipleArticles has returned) no subscription is live.
C3_NoLiveSubscription ==
    /\ \A c \in Closures : c.promise # "pending" => ~c.subscribed
    /\ pc # "wait" => \A c \in Closures : ~c.subscribed

\* C3 witness: a batch has returned after one wait ended by quorum and
\* another by timeout.
C3_Witness ==
    /\ pc = "done" /\ caller = "batch" /\ Len(returned) = 2
    /\ \E j, k \in 0..(Len(articles) - 1) : ResolvedBy(j, "quorum") /\ ResolvedBy(k, "timeout")

\* The quorum targets for 1..5 relays.
QuorumTable == <<1, 1, 2, 2, 3>>

\* C4: for n = 1..5 target relays the quorum target is 1, 1, 2, 2, 3: the
\* computed target is the table's, a wait resolved by quorum has counted
\* exactly that many observations and a pending wait fewer.
C4_QuorumTargets ==
    \A c \in Closures :
       LET n == Len(c.relays)
       IN n \in 1..5 =>
             /\ QuorumTarget(n) = QuorumTable[n]
             /\ c.by = "quorum" => c.confirmations = QuorumTable[n]
             /\ c.promise = "pending" => c.confirmations < QuorumTable[n]

\* C4 witness: a wait over the five default relays resolved by quorum at
\* its third observation.
C4_Witness ==
    \E c \in Closures :
       c.relays = defaultRelays /\ c.by = "quorum" /\ c.confirmations = 3

\* C5 as stated: the confirmations needed to resolve early are more than n / 2.
C5_StrictMajority ==
    \A c \in Closures :
       Len(c.relays) >= 1 /\ c.by = "quorum" => 2 * c.confirmations > Len(c.relays)

\* C5 amended: the confirmations needed to resolve early are the least
\* number that is at least n / 2: more than n / 2 when n is odd, exactly
\* n / 2 when n is even.
C5_AtLeastHalf ==
    \A c \in Closures :
       LET n == Len(c.relays)
       IN n >= 1 /\ c.by = "quorum" =>
             /\ 2 * c.confirmations >= n
             /\ 2 * (c.confirmations - 1) < n
             /\ n % 2 = 1 => 2 * c.confirmations > n
             /\ n % 2 = 0 => 2 * c.confirmations = n

\* C5 witness: a wait over four relays resolved early by two observations.
C5_Witness ==
    \E c \in Closures :
       Len(c.relays) = 4 /\ c.by = "quorum" /\ c.confirmations = 2


IsAttempt(e) == e.op = "publishArticle"
IsOutcome(e) == e.op \in {"ok", "fail"}
IsOk(e) == e.op = "ok"
IsSleep(e) == e.op = "sleep"

\* The publishArticle calls made, the outcomes they had, the ids returned.
Attempts == SelectSeq(calls, IsAttempt)
Outcomes == SelectSeq(calls, IsOutcome)
OkIds == LET oks == SelectSeq(calls, IsOk) IN [k \in 1..Len(oks) |-> oks[k].arg]

Failed(idx, err) == \E p \in DOMAIN calls : calls[p] = Log("fail", idx, <<"error", err>>)

\* C6: a batch isolates failures: the ids collected are at every moment those
\* of the calls that succeeded, in order; when the batch has returned every
\* article was attempted exactly once in input order, whichever of them
\* failed, and the result is exactly the ids of the successful ones.
C6_BatchIsolatesFailures ==
    caller = "batch" =>
       /\ eventIds = OkIds
       /\ \A k \in DOMAIN Attempts :
             Attempts[k] = Log("publishArticle", k - 1, <<"article", articles[k]>>)
       /\ \A k \in DOMAIN Outcomes :
             /\ Outcomes[k].i = k - 1
             /\ Outcomes[k].op = "ok" => Outcomes[k].arg = EventId(articles[k])
       /\ pc = "done" =>
             /\ Len(Attempts) = Len(articles)
             /\ Len(Outcomes) = Len(articles)
             /\ returned = OkIds
             /\ thrown = "none"

\* C6 witness: a batch of two has returned, the signing of the first
\* failed, the result is the id of the second.
C6_Witness ==
    /\ pc = "done" /\ caller = "batch" /\ Len(articles) = 2
    /\ Failed(0, "SignError")
    /\ returned = <<EventId(articles[2])>>

\* C7 as stated: when the batch has returned, the delay was slept after every
\* item but the last, whether that item succeeded or failed.
C7_DelayBetweenAllItems ==
    pc = "done" /\ caller = "batch" =>
       \A k \in 0..(Len(articles) - 1) :
          (k < Len(articles) - 1) <=> (\E p \in DOMAIN calls : IsSleep(calls[p]) /\ calls[p].i = k)

\* C8: a batch is strictly sequential: at most one subscription, one armed
\* confirmation timer and one pending wait exist, they belong to the item the
\* loop is at, and while an item is being entered, signed or broadcast, or
\* the loop sleeps, nothing of an earlier item's wait is left.
C8_StrictlySequential ==
    /\ Cardinality({w \in DOMAIN waits : waits[w].subscribed}) <= 1
    /\ Cardinality({w \in DOMAIN waits : waits[w].timerArmed}) <= 1
    /\ Cardinality({w \in DOMAIN waits : waits[w].promise = "pending"}) <= 1
    /\ \A c \in Closures :
          c.subscribed \/ c.timerArmed \/ c.promise = "pending" => pc = "wait" /\ c.i = i
    /\ pc \in {"loop", "enter", "sign", "publish", "delay", "done"} =>
          \A c \in Closures : ~Reachable(c)

\* C8 witness: the second item of a batch is in its confirmation wait after
\* the first went through its own.
C8_Witness ==
    /\ caller = "batch" /\ pc = "wait" /\ i = 1
    /\ ResolvedBy(0, "timeout")
    /\ \E c \in Closures : c.i = 1 /\ c.subscribed /\ c.timerArmed /\ c.confirmations = 1

\* C9: with no signer attached publishArticle fails at once with the "not
\* initialized" error: no event is built, signEvent and pool.publish are not
\* called, no subscription is opened; and whenever a call has failed with
\* that error, also when a signer was attached afterwards, nothing but the
\* entry into publishArticle came before the failure.
C9_NotInitializedFailsFirst ==
    signer = "null" =>
       /\ \A p \in DOMAIN calls : calls[p].op \in {"publishArticle", "fail"}
       /\ \A p \in DOMAIN calls :
             calls[p].op = "fail" =>
                /\ calls[p].arg = <<"error", "NotInitialized">>
                /\ p > 1 /\ calls[p - 1].op = "publishArticle" /\ calls[p - 1].i = calls[p].i
       /\ waits = <<>>
       /\ pc \notin {"sign", "publish", "wait", "delay"}
       /\ pc = "done" /\ caller = "single" => thrown = "NotInitialized" /\ returned = <<>>
       /\ pc = "done" /\ caller = "batch" => returned = <<>>
    /\ \A p \in DOMAIN calls :
          calls[p] = Log("fail", calls[p].i, <<"error", "NotInitialized">>) =>
             p > 1 /\ calls[p - 1].op = "publishArticle" /\ calls[p - 1].i = calls[p].i

\* C9 witness: publishArticle was called with no signer attached and has
\* failed with the "not initialized" error.
C9_Witness ==
    /\ signer = "null" /\ caller = "single" /\ pc = "done"
    /\ thrown = "NotInitialized"
    /\ Len(calls) = 2 /\ calls[2] = Log("fail", 0, <<"error", "NotInitialized">>)

\* C10: once signing has succeeded and pool.publish has returned, leaving the
\* confirmation wait always returns the signed event's id, whatever the
\* relays answered and however the wait ended; no call that got as far as
\* its subscription is ever recorded as failed.
C10_Step ==
    /\ \A q \in DOMAIN calls' :
          calls'[q].op = "fail" =>
             \A p \in DOMAIN calls' : calls'[p].op = "subscribe" => calls'[p].i # calls'[q].i
    /\ pc = "wait" /\ pc' # "wait" =>
          /\ \E p \in DOMAIN calls' : p > Len(calls) /\ calls'[p] = Log("ok", i, signedEvent.id)
          /\ signedEvent.id = EventId(article)
          /\ thrown' = "none"
          /\ caller = "single" => pc' = "done" /\ returned' = <<signedEvent.id>>
          /\ caller = "batch" => eventIds' = Append(eventIds, signedEvent.id)

C10_ShortfallIsNoFailure == [][C10_Step]_vars

\* C10 witness: publishArticle has returned the id although no relay took the
\* event's confirmation to the quorum and the wait ended at its timeout.
C10_Witness ==
    /\ caller = "single" /\ pc = "done" /\ thrown = "none"
    /\ \E a \in Articles : returned = <<EventId(a)>>
    /\ ResolvedBy(0, "timeout")


\* ------------------------------------------------------- run of the mirror
\* C11 as stated: whenever createSigner has failed in initialize, initialize
\* has failed, the process has ended there with exit code 1, and nothing was
\* scraped or handed to publishArticle.
C11_SignerFailureAbortsRun ==
    run.createFailed =>
       /\ initResult = "rejected"
       /\ run.phase = "exited" /\ run.exit = 1
       /\ run.scraped = <<>> /\ run.processed = <<>>
       /\ calls = <<>>

\* The articles a run over listing with --limit hands on: among the first
\* limit of the listing, those with enough content and enough Markdown.
Publishable(page) ==
    page.contentLen > MinContentLength /\ page.markdownLen >= MinMarkdownLength

Candidates(listing, limit) ==
    LET first == [k \in 1..Min(limit, Len(listing)) |-> listing[k]]
        kept == SelectSeq(first, Publishable)
    IN [k \in 1..Len(kept) |-> kept[k].a]

\* C12: a dry run never initializes a signer, never calls signEvent or
\* pool.publish, opens no subscription, and when it has returned it has
\* listed exactly the articles a publishing run would have handed to
\* publishMultipleArticles; it ends otherwise only when a conversion threw
\* or when a signal stopped it while it scraped.
C12_DryRunPublishesNothing ==
    run.phase # "none" /\ run.argv.dryRun =>
       /\ initResult = "none" /\ signer = "null" /\ inits = <<>>
       /\ calls = <<>> /\ waits = <<>> /\ pc \in {"idle", "exited"} /\ caller = "none"
       /\ run.phase \in {"scrape", "returned", "exited"}
       /\ run.phase = "returned" =>
             /\ run.listed = Candidates(run.listing, run.argv.limit)
             /\ run.exit = 0 /\ run.signal = "none"
       /\ run.phase = "exited" =>
             /\ run.listed = <<>>
             /\ IF run.signal = "none"
                THEN ConversionThrows(run.scraped) /\ run.exit = 1
                ELSE run.scraped = <<>> /\ run.exit = 0

\* C12 witness: a dry run over three scraped articles, one of them too thin,
\* has returned after listing the other two.
C12_Witness ==
    /\ run.argv.dryRun /\ run.phase = "returned" /\ ~run.later
    /\ Len(run.listing) = 3 /\ Len(run.scraped) = 3
    /\ run.listed = <<1, 3>>

\* The articles this process has signed and handed to pool.publish.
Broadcast == {calls[p].arg[2] : p \in {q \in DOMAIN calls : calls[q].op = "publish"}}

\* The articles this process has asked the signer to sign.
Signed == {calls[p].arg[2] : p \in {q \in DOMAIN calls : calls[q].op = "signEvent"}}

\* C13 as stated: with --skip-existing at its default, a later run over the
\* same articles neither signs nor broadcasts an article an earlier run
\* has published.
C13_SkipsPublished ==
    run.later /\ run.argv.skipExisting =>
       (Signed \cup Broadcast) \cap run.published = {}


\* ------------------------------------------------------------ the event
\* The event built last, and the URL and identifier built before it.
LastEvent == built[Len(built)]
HasEvent == built # <<>>
HasTwo == Len(built) = 2

\* C14: the identifier of a built event is the path of its URL without its
\* first slash and without one slash at its end, or the fallback "article"
\* when nothing is left; x/y/ gives x/y, / the fallback, /solo gives solo;
\* and the same URL built twice gives the same identifier.
C14_IdentifierFromPath ==
    HasEvent =>
       LET url == LastEvent.article.url
           id == LastEvent.articleId
           body == Tail(pathname(url))
       IN /\ Head(pathname(url)) = "/"
          /\ IF body \in {<<>>, <<"/">>}
             THEN id = <<"a", "r", "t", "i", "c", "l", "e">>
             ELSE \/ id = body /\ body[Len(body)] # "/"
                  \/ body = id \o <<"/">>
          /\ url = <<Origin, "/", "x", "/", "y", "/">> => id = <<"x", "/", "y">>
          /\ url = <<Origin, "/", "s", "o", "l", "o">> => id = <<"s", "o", "l", "o">>
          /\ HasTwo /\ built[1].url = url => built[1].articleId = id

\* C14 witness: a URL whose path starts with two slashes has been built
\* after the same URL, and keeps one of them.
C14_Witness ==
    /\ HasTwo
    /\ LastEvent.article.url = <<Origin, "/", "/", "x">>
    /\ built[1].url = LastEvent.article.url
    /\ LastEvent.articleId = <<"/", "x">>

\* C15 as stated: two articles with different URLs get different
\* identifiers.
C15_IdentifierUniquePerUrl ==
    HasTwo /\ built[1].url # LastEvent.article.url =>
       built[1].articleId # LastEvent.articleId

\* The names of the tags of a tag list, in order.
Names(tags) == [k \in DOMAIN tags |-> tags[k][1]]

\* C16: the tag list of a built event has exactly one tag named d, and it
\* is the first tag of the list.
C16_ExactlyOneDFirst ==
    HasEvent =>
       LET tags == LastEvent.tags
       IN /\ tags # <<>>
          /\ tags[1][1] = "d"
          /\ tags[1][2] = LastEvent.articleId
          /\ Cardinality({k \in DOMAIN tags : tags[k][1] = "d"}) = 1

\* C16 witness: the event of an article with a summary, an image and two
\* topic tags has been built, eleven tags long.
C16_Witness ==
    /\ HasEvent
    /\ Truthy(LastEvent.article.summary) /\ Truthy(LastEvent.article.image)
    /\ Len(LastEvent.article.tags) = 2
    /\ Len(LastEvent.tags) = 11

\* Whether a string has a character toLowerCase changes.
HasUpperCase(str) == \E k \in DOMAIN str : str[k] \in {"D", "F"}

\* C17: the tags of a built event are, in this order, d, title,
\* published_at, client, r, summary if the article has one, image if it has
\* one, one t per topic tag with the tag in lower case, and the two subject
\* tags.  An article has a summary or an image when the field is a
\* non-empty string.
C17_TagOrder ==
    HasEvent =>
       LET a == LastEvent.article
           tags == LastEvent.tags
           hasSummary == a.summary.defined /\ a.summary.text # <<>>
           hasImage == a.image.defined /\ a.image.text # <<>>
           t0 == 5 + (IF hasSummary THEN 1 ELSE 0) + (IF hasImage THEN 1 ELSE 0)
       IN /\ Names(tags) =
                <<"d", "title", "published_at", "client", "r">>
                \o (IF hasSummary THEN <<"summary">> ELSE <<>>)
                \o (IF hasImage THEN <<"image">> ELSE <<>>)
                \o [k \in 1..Len(a.tags) |-> "t"]
                \o <<"subject", "subject">>
          /\ tags[2][2] = a.title
          /\ tags[5][2] = a.url
          /\ hasSummary => tags[6][2] = a.summary.text
          /\ hasImage => tags[t0][2] = a.image.text
          /\ \A k \in 1..Len(a.tags) :
                /\ ~HasUpperCase(tags[t0 + k][2])
                /\ Len(tags[t0 + k][2]) = Len(a.tags[k])
                /\ ~HasUpperCase(a.tags[k]) => tags[t0 + k][2] = a.tags[k]
          /\ tags[Len(tags) - 1][2] = <<"DeFi Security">>
          /\ tags[Len(tags)][2] = <<"Blockchain">>

\* C17 witness: an article with a summary, an image and two topic tags, one
\* of them in mixed case, has been built.
C17_Witness ==
    /\ HasEvent
    /\ LastEvent.article.summary = Str(<<"S">>)
    /\ LastEvent.article.image = Str(<<"I">>)
    /\ LastEvent.article.tags = <<<<"D", "e", "F", "i">>, <<"d", "e">>>>
    /\ LastEvent.tags[8] = <<"t", <<"d", "e", "f", "i">>>>


\* ----------------------------------------------------- one publishArticle
\* The entries of the call log that belong to the publishArticle call whose
\* entry is at position p: from p up to the next call's entry.
CallOps(p) ==
    LET later == {q \in DOMAIN calls : q > p /\ calls[q].op = "publishArticle"}
        end == IF later = {} THEN Len(calls)
               ELSE (CHOOSE q \in later : \A r \in later : q <= r) - 1
    IN [k \in 1..(end - p + 1) |-> calls[p + k - 1].op]

CallStarts == {p \in DOMAIN calls : calls[p].op = "publishArticle"}

\* C18: the steps of a publishArticle call come in the order build, sign,
\* broadcast, confirm: pool.publish is called right after signEvent has
\* returned, with the event the signer returned for this article, and the
\* subscription is opened right after pool.publish has returned, for that
\* event's id.
C18_StepOrder ==
    /\ \A p \in DOMAIN calls :
          /\ calls[p].op = "signEvent" =>
                p > 1 /\ calls[p - 1] = Log("build", calls[p].i, <<"kind", Kind>>)
          /\ calls[p].op = "publish" =>
                /\ p > 1 /\ calls[p - 1].op = "signEvent" /\ calls[p - 1].i = calls[p].i
                /\ calls[p].arg = EventId(calls[p - 1].arg[2])
          /\ calls[p].op = "subscribe" =>
                p > 1 /\ calls[p - 1] = Log("publish", calls[p].i, calls[p].arg)
          /\ calls[p].op = "resolved" =>
                p > 2 /\ calls[p - 2].op = "subscribe" /\ calls[p - 2].i = calls[p].i
    /\ pc = "sign" => signedEvent = NoEvent /\ calls[Len(calls)].op = "signEvent"
    /\ pc = "publish" =>
          /\ signedEvent = [id |-> EventId(article)]
          /\ publishResult = -1
          /\ calls[Len(calls)] = Log("publish", i, signedEvent.id)
          /\ \A c \in Closures : c.i = i => c.eventId # signedEvent.id
    /\ pc = "wait" =>
          /\ publishResult \in 0..Len(relays)
          /\ waits[Len(waits)].eventId = signedEvent.id
          /\ waits[Len(waits)].relays = relays

\* C18 witness: a call is in its confirmation wait, its log reads build,
\* signEvent, publish, subscribe, setTimeout.
C18_Witness ==
    /\ pc = "wait" /\ caller = "single"
    /\ \E p \in CallStarts :
          CallOps(p) = <<"publishArticle", "build", "signEvent", "publish", "subscribe",
                         "setTimeout">>
    /\ waits[Len(waits)].subscribed /\ waits[Len(waits)].confirmations = 1

\* How often op occurs in a sequence of operation names.
Count(ops, op) == Cardinality({k \in DOMAIN ops : ops[k] = op})

\* C19: a failure of signEvent or of pool.publish ends the call with that
\* failure: signEvent and pool.publish are called at most once per call, a
\* call that failed in signing never reached pool.publish, a call that
\* failed in signing or broadcasting opened no subscription and armed no
\* timer, and a direct caller sees the failure.
C19_FailurePropagates ==
    /\ \A p \in CallStarts :
          LET ops == CallOps(p)
              last == calls[p + Len(ops) - 1]
          IN /\ Count(ops, "signEvent") <= 1
             /\ Count(ops, "publish") <= 1
             /\ last = Log("fail", calls[p].i, <<"error", "SignError">>) =>
                   ops = <<"publishArticle", "build", "signEvent", "fail">>
             /\ last = Log("fail", calls[p].i, <<"error", "PublishError">>) =>
                   ops = <<"publishArticle", "build", "signEvent", "publish", "fail">>
             /\ last.op = "fail" => \A c \in Closures : c.i # calls[p].i \/ pc = "wait"
    /\ caller = "single" /\ pc = "done" =>
          \A err \in {"SignError", "PublishError"} : Failed(0, err) <=> thrown = err

\* C19 witness: in a batch the first call failed in signing and the second
\* in broadcasting; the batch has returned no id.
C19_Witness ==
    /\ caller = "batch" /\ pc = "done" /\ Len(articles) = 2
    /\ Failed(0, "SignError") /\ Failed(1, "PublishError")
    /\ returned = <<>>

\* C20: a confirmation wait is resolved at most once and by one trigger:
\* a resolved wait was resolved exactly once, by the quorum or by the
\* timer; after the quorum resolved it the timer is disarmed and cannot
\* fire, after the timer resolved it the subscription is closed and no
\* observation is counted; a wait resolved by the timer never reached the
\* quorum and one resolved by the quorum had reached it.
C20_Step ==
    /\ \A c \in Closures' :
          /\ c.resolves <= 1
          /\ c.promise \in {"pending", "fulfilled"}
          /\ c.promise = "pending" <=> c.resolves = 0 /\ c.by = "none"
          /\ c.promise = "fulfilled" <=> c.resolves = 1 /\ c.by \in {"quorum", "timeout"}
          /\ c.promise = "fulfilled" => ~c.timerArmed /\ ~c.subscribed
          /\ c.by = "quorum" =>
                c.confirmations >= 1 /\ c.confirmations >= QuorumTarget(Len(c.relays))
          /\ c.by = "timeout" =>
                /\ c.elapsed >= WaitTimeoutMs
                /\ c.confirmations = 0 \/ c.confirmations < QuorumTarget(Len(c.relays))
    /\ \A w \in DOMAIN waits :
          waits[w].promise = "fulfilled" /\ w \in DOMAIN waits' /\ waits'[w].i = waits[w].i =>
             waits'[w] = waits[w]

C20_SingleResolution == [][C20_Step]_vars

\* C20 witness: in one batch a wait was resolved by the quorum, and a later
\* one, with an observation short of the quorum, has just been resolved by
\* its timer.
C20_Witness ==
    /\ caller = "batch" /\ pc = "wait" /\ i = 1
    /\ ResolvedBy(0, "quorum")
    /\ \E c \in Closures :
          /\ c.i = 1 /\ c.by = "timeout" /\ c.resolves = 1
          /\ c.confirmations >= 1 /\ ~c.timerArmed /\ ~c.subscribed


\* ------------------------------------------------------------ relay list
\* C21: one relay list serves a publishArticle call: the caller's list when
\* the options carry one, the five default relays otherwise; pool.publish
\* reports on that list, the subscription is opened on that list for the id
\* of the event just signed and broadcast, and the quorum is computed from
\* it.
C21_OneRelayList ==
    /\ Len(defaultRelays) = 5
    /\ pc \in {"sign", "publish", "wait"} =>
          /\ options.defined => relays = options.list
          /\ ~options.defined => relays = defaultRelays
    /\ pc = "wait" =>
          LET c == waits[Len(waits)]
          IN /\ c.relays = relays
             /\ c.i = i
             /\ c.eventId = signedEvent.id /\ signedEvent.id = EventId(article)
             /\ publishResult \in 0..Len(relays)
             /\ \E p \in DOMAIN calls :
                   /\ calls[p] = Log("subscribe", i, c.eventId)
                   /\ calls[p - 1] = Log("publish", i, c.eventId)
             /\ c.by = "quorum" => c.confirmations >= QuorumTarget(Len(relays))
             /\ c.promise = "pending" /\ c.confirmations > 0 =>
                   c.confirmations < QuorumTarget(Len(relays))

\* C21 witness: the second call of a batch with a caller-supplied list of
\* two relays waits on those two relays and was resolved by the first
\* observation.
C21_Witness ==
    /\ caller = "batch" /\ pc = "wait" /\ i = 1
    /\ options = [defined |-> TRUE, list |-> CustomRelays(2)]
    /\ relays = CustomRelays(2)
    /\ waits[Len(waits)].relays = CustomRelays(2)
    /\ waits[Len(waits)].by = "quorum" /\ waits[Len(waits)].confirmations = 1

\* ---------------------------------------------------------- createSigner
Supported(signerString) ==
    /\ ~StartsWith(signerString, PrefixNcryptsec)
    /\ StartsWith(signerString, PrefixNsec) \/ StartsWith(signerString, PrefixBunker)

\* C22: createSigner fails at once, whatever the signer library would do,
\* for an ncryptsec string and for a string that starts with neither nsec
\* nor bunker://; for the other strings it returns a signer only when the
\* library constructed one and its getPublicKey succeeded.  So a run that
\* has a signer attached was started with an nsec or bunker:// string of
\* that kind, and signEvent is only ever called with a signer attached.
C22_SignerValidated ==
    /\ \A s \in SignerStrings, lib \in LibOutcomes :
          LET r == createSigner(s, lib)
          IN /\ ~Supported(s) =>
                   /\ r.status = "throw" /\ r.isError /\ r.signer = "null"
                   /\ r.stage = IF StartsWith(s, PrefixNcryptsec) THEN "unsupported"
                                ELSE "invalid"
             /\ Supported(s) =>
                   /\ r.status = "ok" <=> lib = "ok"
                   /\ r.status = "ok" =>
                         r.signer = IF StartsWith(s, PrefixNsec) THEN "nsec" ELSE "bunker"
                   /\ r.status = "throw" => r.signer = "null"
                   /\ lib \in {"pubkeyError", "pubkeyOther"} => r.stage = "getPublicKey"
    /\ signer # "null" =>
          /\ initResult = "resolved" /\ ~run.createFailed
          /\ signer = "nsec" <=> StartsWith(run.argv.signer, PrefixNsec)
          /\ signer = "bunker" <=> StartsWith(run.argv.signer, PrefixBunker)
    /\ /\ run.phase # "none"
       /\ ValidArgv(run.argv) /\ ~run.argv.dryRun /\ ~Supported(run.argv.signer)
       => /\ signer = "null"
          /\ run.phase \in {"init", "initializing", "exited"}
          /\ run.phase = "exited" /\ run.signal = "none" =>
                initResult = "rejected" /\ run.exit = 1
    /\ (\E p \in DOMAIN calls : calls[p].op = "signEvent") => signer # "null"

\* C22 witness: a run started with a bunker:// string has a validated
\* bunker signer attached and has called signEvent.
C22_Witness ==
    /\ signer = "bunker" /\ run.phase = "publishing"
    /\ StartsWith(run.argv.signer, PrefixBunker)
    /\ pc = "sign" /\ calls[Len(calls)].op = "signEvent"


\* ------------------------------------------------------ skipped articles
\* An article the run skips: its page was not fetched, or its Markdown is
\* too short.
Skipped(page) ==
    page.contentLen = 0 \/ page.markdownLen < MinMarkdownLength

\* The run has its answer from fetchLatestArticles and is past the
\* processing loop.
HasScraped ==
    \/ run.phase \in {"publishing", "returned"}
    \/ run.phase = "exited" /\ run.scraped # <<>>

\* The articles publishArticle was called for.
Attempted == {calls[p].arg[2] : p \in {q \in DOMAIN calls : calls[q].op = "publishArticle"}}

\* C23: once a run has scraped and processed, an article whose page fetch
\* failed or whose Markdown is shorter than 100 characters is in neither the
\* processed list nor the batch handed to publishMultipleArticles, and
\* publishArticle is never called for it; and, unless a conversion threw,
\* the skipped articles cost the others nothing: the processed list is every
\* other article of the first limit of the listing, in order, a publishing
\* run hands exactly that list to publishMultipleArticles, and when the run
\* has returned each of them was attempted.
C23_SkippedLocally ==
    HasScraped =>
       LET limit == run.argv.limit
           first == [k \in 1..Min(limit, Len(run.listing)) |-> run.listing[k]]
           skipped == {first[k].a : k \in {m \in DOMAIN first : Skipped(first[m])}}
           threw == \E k \in DOMAIN first : first[k].contentLen > 0 /\ first[k].convertThrows
       IN /\ \A k \in DOMAIN run.scraped : run.scraped[k].contentLen > MinContentLength
          /\ \A k \in DOMAIN run.processed : run.processed[k] \notin skipped
          /\ \A k \in DOMAIN articles : articles[k] \notin skipped
          /\ Attempted \cap skipped = {}
          /\ ~threw =>
                /\ {run.processed[k] : k \in DOMAIN run.processed} =
                      {first[k].a : k \in DOMAIN first} \ skipped
                /\ \A j, k \in DOMAIN run.processed :
                      j < k => run.processed[j] < run.processed[k]
                /\ ~run.argv.dryRun /\ run.processed # <<>> =>
                      /\ articles = run.processed
                      /\ run.phase = "returned" =>
                            Attempted = {articles[k] : k \in DOMAIN articles}
          /\ threw => run.phase = "exited" /\ calls = <<>>

\* C23 witness: of three listed articles the first could not be fetched and
\* the second converted to too little Markdown; the run has published the
\* third.
C23_Witness ==
    /\ run.phase = "returned" /\ ~run.argv.dryRun /\ ~run.later
    /\ Len(run.listing) = 3 /\ run.argv.limit = 3
    /\ run.listing[1].contentLen = 0
    /\ run.listing[2].contentLen > 0 /\ run.listing[2].markdownLen < MinMarkdownLength
    /\ articles = <<3>>
    /\ returned = <<EventId(3)>>


\* ---------------------------------------------------------- the counter
\* C24: over a non-empty relay list the confirmation counter never exceeds
\* the quorum target; it is at the target exactly when the wait was resolved
\* by the quorum, below it when the wait was resolved by the timer, and it
\* keeps its value once the wait is resolved.
C24_Step ==
    /\ \A c \in Closures' :
          LET target == QuorumTarget(Len(c.relays))
          IN Len(c.relays) >= 1 =>
                /\ target = (Len(c.relays) + 1) \div 2
                /\ c.confirmations <= target
                /\ c.confirmations = target <=> c.by = "quorum"
                /\ c.by = "timeout" => c.confirmations < target
    /\ \A w \in DOMAIN waits :
          /\ waits[w].promise # "pending"
          /\ w \in DOMAIN waits' /\ waits'[w].i = waits[w].i
          => waits'[w].confirmations = waits[w].confirmations

C24_CounterBounded == [][C24_Step]_vars

\* C24 witness: a wait over four relays was resolved by its timer with one
\* observation counted, one short of the target of two.
C24_Witness ==
    /\ caller = "single" /\ pc = "wait"
    /\ \E c \in Closures :
          /\ Len(c.relays) = 4 /\ c.by = "timeout"
          /\ c.confirmations = 1 /\ c.elapsed = WaitTimeoutMs


\* ------------------------------------------------------------ termination
\* C25: a batch terminates: every confirmation wait ends, no timer runs
\* past 5000 ms, and a started batch eventually returns, after exactly one
\* attempt per article and with at most as many ids as articles.
C25_BatchTerminates ==
    /\ [](\A c \in Closures : c.elapsed <= WaitTimeoutMs)
    /\ \A idx \in 0..(MaxBatch - 1) : (pc = "wait" /\ i = idx) ~> ~(pc = "wait" /\ i = idx)
    /\ (caller = "batch") ~>
          /\ pc = "done"
          /\ Len(Attempts) = Len(articles)
          /\ \A k \in DOMAIN Attempts : Attempts[k].arg = <<"article", articles[k]>>
          /\ Len(returned) <= Len(articles)

\* C25 witness: a batch of two has returned two ids although no relay
\* ever answered: each wait ended at its timer.
C25_Witness ==
    /\ caller = "batch" /\ pc = "done" /\ Len(articles) = 2 /\ Len(returned) = 2
    /\ \A idx \in 0..1 : ResolvedBy(idx, "timeout")


\* ------------------------------------------------------- empty relay list
\* C26: a caller-supplied empty relay list is the list the call uses; its
\* quorum target is 0, yet a wait over it starts pending and stays pending
\* while nothing was observed and its timer has not run out: it is resolved
\* by the first observation or by the timer at 5000 ms.
C26_EmptyRelayList ==
    /\ QuorumTarget(0) = 0
    /\ pc \in {"sign", "publish", "wait"} /\ options.defined /\ options.list = <<>> =>
          relays = <<>>
    /\ \A c \in Closures :
          c.relays = <<>> =>
             /\ c.confirmations = 0 /\ c.elapsed < WaitTimeoutMs => c.promise = "pending"
             /\ c.confirmations = 0 /\ c.timerArmed => c.promise = "pending" /\ c.subscribed
             /\ c.promise = "fulfilled" =>
                   \/ c.by = "quorum" /\ c.confirmations = 1
                   \/ c.by = "timeout" /\ c.confirmations = 0 /\ c.elapsed = WaitTimeoutMs
    /\ pc = "wait" /\ relays = <<>> => waits[Len(waits)].relays = <<>> /\ publishResult = 0

\* C26 witness: a call with an empty relay list is in its wait, some time
\* has passed, nothing was observed and the wait is pending.
C26_Witness ==
    /\ pc = "wait" /\ caller = "single"
    /\ options = [defined |-> TRUE, list |-> <<>>]
    /\ \E c \in Closures :
          /\ c.relays = <<>> /\ c.promise = "pending"
          /\ c.confirmations = 0 /\ c.elapsed > 0 /\ c.subscribed /\ c.timerArmed

====
